---- MODULE Spec2Model ----
(***************************************************************************)
(* State-machine model of moment-explorer.                                 *)
(*                                                                         *)
(*   Spec        MomentMapExplorer (explorer.py): load_cube,               *)
(*               enable_prefix_sums, generate and save, called in any      *)
(*               order on the cube and mask files of a small directory.    *)
(*   SaveSpec    save after load_cube and generate, on two cube paths.     *)
(*   PrefixSpec  the prefix-sum path of generate on every cube of at most  *)
(*               MaxChan channels.                                         *)
(*   ClampSpec   generate with channel indices outside the cube.           *)
(*   ReloadSpec  load_cube on one cube after another, also failing         *)
(*               part-way, with the prefix sums in use.                    *)
(*   MultiSpec   create_multi_cube_explorer (ui.py), statement by          *)
(*               statement, and the cube dropdown it installs.             *)
(*   BrowserSpec the file browser of browse_files (cli.py) and the clicks  *)
(*               of its user.                                              *)
(*   LauncherSpec  the launcher of create_launcher_ui (cli.py) and          *)
(*               create_interactive_explorer (ui.py).                      *)
(*   UISpec      the widgets of MomentMapUI (ui.py) and its debounce timer *)
(*   ApplySpec   the widgets of MomentMapUI with auto-apply off, over an   *)
(*               explorer on which load_cube is called again.              *)
(*                                                                         *)
(* Arrays.  Every numpy operation of explorer.py is element-wise over the  *)
(* two spatial axes and reduces only along axis 0 (the channel axis), so a *)
(* cube is modelled by its spectrum at one arbitrary pixel: a function     *)
(* from the channel index 0..n-1 to an integer.  Data values are integers  *)
(* in units of the RMS; floating-point rounding is not modelled.           *)
(* bettermoments.load_cube replaces non-finite voxels by 0, so loaded data *)
(* holds no NaN.                                                           *)
(*                                                                         *)
(* Python's None is the empty tuple; a value v that may be None is <<v>>.  *)
(***************************************************************************)
EXTENDS Integers, Sequences, FiniteSets, TLC

\* Largest number of channels of the cubes PrefixSpec draws.
MaxChan == 2
\* Largest channel index Spec passes to generate as first or last.
MaxArg == 1
\* Largest number of entries of available_cubes.
MaxCubes == 2
\* Largest number of cubes one multi-cube explorer loads.
MaxLoads == 3
\* MomentMapUI._debounce_delay (0.2 s), in ticks of 100 ms.
DebounceDelay == 2

None == <<>>
Some(v) == <<v>>
Val(o) == o[1]

Max(a, b) == IF a >= b THEN a ELSE b
Min(a, b) == IF a <= b THEN a ELSE b
Abs(a) == IF a >= 0 THEN a ELSE -a

Chans(n) == 0 .. (n - 1)
\* len() of an array along axis 0
NChan(arr) == Cardinality(DOMAIN arr)

(***************************************************************************)
(* Paths are sequences of tokens; ".fits" is one token, so that            *)
(* str.replace('.fits', ...) can be modelled by what it does: it rewrites  *)
(* every occurrence.                                                       *)
(***************************************************************************)
FITS == ".fits"
PathA == <<"a", FITS>>
PathB == <<"run", FITS, "/b", FITS>>
\* a cube of one channel, loaded behind a MomentMapUI in UISpec
PathC == <<"c", FITS>>
CubePaths == {PathA, PathB}
OutPaths == { <<"out", FITS>> }

\* str.replace('.fits', f'_{moment}.fits')
RECURSIVE ReplaceFits(_, _)
ReplaceFits(path, moment) ==
    IF path = <<>> THEN <<>>
    ELSE (IF Head(path) = FITS THEN <<"_", moment, FITS>> ELSE <<Head(path)>>)
         \o ReplaceFits(Tail(path), moment)

(***************************************************************************)
(* What the files hold.                                                    *)
(***************************************************************************)
\* an array from the list of its values
Arr(seq) == [c \in Chans(Len(seq)) |-> seq[c + 1]]
\* Voxel values in units of the RMS: zero, below and above a 2 sigma clip.
Vals == {0, 1, 3}
\* The directory: two cube files of 2 channels, each with its mask file.
CubeFile(cp) ==
    IF cp = PathA THEN Arr(<<1, 3>>) ELSE IF cp = PathC THEN Arr(<<3>>) ELSE Arr(<<3, 0>>)
MaskPathOf(cp) ==
    IF cp = PathA THEN <<"a.mask", FITS>>
    ELSE IF cp = PathC THEN <<"c.mask", FITS>> ELSE <<"b.mask", FITS>>
MaskFile(cp) ==
    IF cp = PathA THEN Arr(<<0, 1>>) ELSE IF cp = PathC THEN Arr(<<1>>) ELSE Arr(<<1, 0>>)
\* velax of a cube of n channels, read from its header: a descending axis of
\* channel width 2
VelAxis(n) == [c \in Chans(n) |-> 3 - 2 * c]
\* bm.estimate_RMS(data, N=5): the unit of the data values
EstimateRMS(d) == 1

Moments == {"M0", "M1", "M8", "M9"}
\* a moment name generate() does not know
BadMoment == "M2"
\* clip sigma values tried: no clipping, and a threshold above the value 1
Clips == {0, 2}
\* channel indices tried as first and last
ChanArgs == 0 .. MaxArg

VARIABLES
    data,            \* self.data: None or <<spectrum>>
    velax,           \* self.velax
    mask,            \* self.mask
    rms,             \* self.rms
    header,          \* self.header: None or <<path the header was read from>>
    cube_path,       \* self.cube_path
    mask_path,       \* self.mask_path
    current_moment,  \* self.current_moment
    current_params,  \* self.current_params: {} is None
    use_prefix_sums, \* self.use_prefix_sums
    S0,              \* self._S0
    S1,              \* self._S1
    prefix_mask,     \* self._prefix_mask
    call,            \* the last call: its name, what it raised, returned, wrote
    multi,           \* the call of create_multi_cube_explorer and what it built
    browser,         \* the widgets and the result dict of browse_files
    launcher,        \* the widgets of create_launcher_ui and the call of
                     \* create_interactive_explorer in progress
    ui,              \* the widgets, the figure and the timer of MomentMapUI
    range_args       \* <<first, last>> as passed to generate, when a generate
                     \* of ClampSpec was the last call

vars == <<data, velax, mask, rms, header, cube_path, mask_path, current_moment,
          current_params, use_prefix_sums, S0, S1, prefix_mask, call, multi,
          browser, launcher, ui, range_args>>

explorerVars == <<data, velax, mask, rms, header, cube_path, mask_path,
                  current_moment, current_params, use_prefix_sums, S0, S1,
                  prefix_mask>>

\* The record of a call: op, its argument (the flag of enable_prefix_sums, the
\* path of save), the exception it raised ("none" if it returned), whether it
\* ran np.cumsum, the path it returned and the files it wrote.
Call(op, arg, raised, cumsum, ret, wrote) ==
    [op |-> op, arg |-> arg, raised |-> raised, cumsum |-> cumsum, ret |-> ret,
     wrote |-> wrote]

\* MomentMapExplorer.__init__
ExplorerInit ==
    /\ data = None
    /\ velax = None
    /\ mask = None
    /\ rms = None
    /\ header = None
    /\ cube_path = None
    /\ mask_path = None
    /\ current_moment = None
    /\ current_params = None
    /\ use_prefix_sums = FALSE
    /\ S0 = None
    /\ S1 = None
    /\ prefix_mask = None

\* create_multi_cube_explorer not called
MultiIdle ==
    [pc |-> "idle", available |-> <<>>, default_arg |-> None, default_cube |-> None,
     widgets |-> {}, selector |-> None, sliders |-> None, loads |-> <<>>,
     raised |-> "none"]

\* create_launcher_ui: the widgets as created, nothing launched
LauncherIdle ==
    [cube_text |-> <<>>, mask_text |-> <<>>, prefix_sums |-> TRUE, output |-> "",
     pc |-> "idle", caller |-> "none", kwargs |-> <<>>, click |-> None,
     raised |-> "none", displayed |-> FALSE]

Init ==
    /\ ExplorerInit
    /\ call = Call("init", None, "none", FALSE, None, {})
    /\ multi = MultiIdle
    /\ browser = None
    /\ launcher = LauncherIdle
    /\ ui = None
    /\ range_args = None

(***************************************************************************)
(* load_cube.  bm.load_cube fails when the cube file cannot be read        *)
(* (failAt = "cube"), bm.get_user_mask when the mask file cannot           *)
(* (failAt = "mask"); the assignments made before the failing line stay.   *)
(***************************************************************************)
load_cube(cp, mp, d, m, failAt) ==
    /\ cube_path' = Some(cp)
    /\ mask_path' = mp
    /\ IF failAt = "cube"
       THEN /\ UNCHANGED <<data, velax, mask, rms, header, S0, S1, prefix_mask>>
            /\ call' = Call("load_cube", None, "OSError", FALSE, None, {})
       ELSE /\ data' = Some(d)
            /\ velax' = Some(VelAxis(NChan(d)))
            /\ IF mp # None /\ failAt = "mask"
               THEN /\ UNCHANGED <<mask, rms, header, S0, S1, prefix_mask>>
                    /\ call' = Call("load_cube", None, "OSError", FALSE, None, {})
               ELSE /\ mask' = IF mp # None THEN Some(m)
                                ELSE Some([c \in DOMAIN d |-> 1])
                    /\ rms' = Some(EstimateRMS(d))
                    /\ header' = Some(cp)
                    /\ S0' = None
                    /\ S1' = None
                    /\ prefix_mask' = None
                    /\ call' = Call("load_cube", None, "none", FALSE, None, {})
    /\ UNCHANGED <<current_moment, current_params, use_prefix_sums>>

\* load_cube on the cube file cp, with its mask file or with none
LoadFile(cp) ==
    \E withMask \in BOOLEAN, failAt \in {"none", "cube", "mask"} :
        /\ (failAt = "mask" => withMask)
        /\ load_cube(cp, IF withMask THEN Some(MaskPathOf(cp)) ELSE None,
                     CubeFile(cp), MaskFile(cp), failAt)

LoadCube == LoadFile(PathA)

LoadEitherCube == \E cp \in CubePaths : LoadFile(cp)

\* the first load_cube of an explorer, on any cube of at most MaxChan channels
LoadAnyCube ==
    /\ data = None
    /\ \E n \in 1 .. MaxChan, withMask \in BOOLEAN :
        \E d \in [Chans(n) -> Vals], m \in [Chans(n) -> {0, 1}] :
            load_cube(PathA, IF withMask THEN Some(MaskPathOf(PathA)) ELSE None,
                      d, m, "none")

(***************************************************************************)
(* enable_prefix_sums                                                      *)
(***************************************************************************)
\* enable_prefix_sums that forgets to clear the cache when disabling
enable_prefix_sums_keeps_cache(flag) ==
    /\ use_prefix_sums' = flag
    /\ UNCHANGED <<S0, S1, prefix_mask>>
    /\ UNCHANGED <<data, velax, mask, rms, header, cube_path, mask_path,
                   current_moment, current_params>>
    /\ call' = Call("enable_prefix_sums", Some(flag), "none", FALSE, None, {})

enable_prefix_sums(flag) ==
    /\ use_prefix_sums' = flag
    /\ IF ~flag
       THEN S0' = None /\ S1' = None /\ prefix_mask' = None
       ELSE UNCHANGED <<S0, S1, prefix_mask>>
    /\ UNCHANGED <<data, velax, mask, rms, header, cube_path, mask_path,
                   current_moment, current_params>>
    /\ call' = Call("enable_prefix_sums", Some(flag), "none", FALSE, None, {})

EnablePrefixSums == \E flag \in BOOLEAN : enable_prefix_sums(flag)

(***************************************************************************)
(* Array helpers.                                                          *)
(***************************************************************************)
\* a * b of two arrays of one shape
Times(a, b) == [c \in DOMAIN a |-> a[c] * b[c]]

RECURSIVE PartialSum(_, _)
PartialSum(f, c) == IF c < 0 THEN 0 ELSE f[c] + PartialSum(f, c - 1)

\* np.cumsum(f, axis=0)
CumSum(f) == [c \in DOMAIN f |-> PartialSum(f, c)]

\* np.zeros_like(data); channel_mask[first:last+1] = 1.0
\* (bm.get_channel_mask gives the same array)
ChannelMask(d, first, last) ==
    [c \in DOMAIN d |-> IF first <= c /\ c <= last THEN 1 ELSE 0]

\* bm.get_threshold_mask(data, clip, smooth_threshold_mask=0.0): 1 where the
\* voxel lies outside [-clip * rms, clip * rms], 0 inside
ThresholdMask(d, clip) ==
    [c \in DOMAIN d |-> IF Abs(d[c]) > clip * EstimateRMS(d) THEN 1 ELSE 0]

(***************************************************************************)
(* _compute_prefix_sums: the cache after the call, whether np.cumsum ran,  *)
(* and the exception numpy raises when data and mask differ in shape.      *)
(***************************************************************************)
\* What numpy raises for arr * self.mask: the mask is None after a first load
\* that failed reading the mask, and of another shape after a later one.
MaskError(arr, use_mask) ==
    IF ~use_mask THEN "none"
    ELSE IF mask = None THEN "TypeError"
    ELSE IF DOMAIN Val(mask) # DOMAIN arr THEN "ValueError"
    ELSE "none"

Cache(raised, s0, s1, pm, cumsum) ==
    [raised |-> raised, S0 |-> s0, S1 |-> s1, pm |-> pm, cumsum |-> cumsum]

\* effective_mask of _compute_prefix_sums
EffectiveMask(channel_mask, use_mask) ==
    IF use_mask THEN Times(channel_mask, Val(mask)) ELSE channel_mask

\* the cache np.cumsum fills for effective_mask
Computed(effective_mask) ==
    Cache("none",
          Some(CumSum(Times(Val(data), effective_mask))),
          Some(CumSum(Times(Val(velax), Times(Val(data), effective_mask)))),
          Some(effective_mask), TRUE)

\* the recompute check of _compute_prefix_sums
CacheHit(effective_mask) == S0 # None /\ Some(effective_mask) = prefix_mask

ComputePrefixSums(channel_mask, use_mask) ==
    IF MaskError(channel_mask, use_mask) # "none"
    THEN Cache(MaskError(channel_mask, use_mask), S0, S1, prefix_mask, FALSE)
    ELSE IF CacheHit(EffectiveMask(channel_mask, use_mask))
         THEN Cache("none", S0, S1, prefix_mask, FALSE)
         ELSE Computed(EffectiveMask(channel_mask, use_mask))

(***************************************************************************)
(* A moment map at the modelled pixel.                                     *)
(*   kind  "M0" / "M1": computed from the prefix sums;                     *)
(*         "collapse_zeroth" ...: the result of that bettermoments collapse*)
(*   map   M0: <<value>>; M1: <<numerator, denominator>>, <<>> for NaN     *)
(*         (the 1e-12 added to the denominator is not modelled)            *)
(*   arg   the data handed to the bettermoments collapse                   *)
(***************************************************************************)
Map(kind, map, arg) == [kind |-> kind, map |-> map, arg |-> arg]

\* the range sum read off a cumulative sum
RangeOfMutOffByOne(S, first, last) ==
    IF first = 0 THEN S[last] ELSE S[last] - S[first]

RangeOf(S, first, last) ==
    IF first = 0 THEN S[last] ELSE S[last] - S[first - 1]

\* the rest of _compute_moment_prefix, once _compute_prefix_sums has left the
\* cache c: the cache after the call and the map (or the exception)
ExtractMoment(c, moment, first, last) ==
    IF c.raised # "none" THEN [cache |-> c, raised |-> c.raised, result |-> None]
    ELSE LET M0 == RangeOf(Val(c.S0), first, last)
             M1_numerator == RangeOf(Val(c.S1), first, last)
         IN  IF moment = "M0"
             THEN IF 1 \notin DOMAIN Val(velax)
                  THEN [cache |-> c, raised |-> "IndexError", result |-> None]
                  ELSE LET dv == Abs(Val(velax)[1] - Val(velax)[0])
                       IN  [cache |-> c, raised |-> "none",
                            result |-> Some(Map("M0", <<M0 * dv>>, None))]
             ELSE IF rms = None
             THEN [cache |-> c, raised |-> "TypeError", result |-> None]
             ELSE [cache |-> c, raised |-> "none",
                   result |-> Some(Map("M1",
                                       IF M0 < 3 * Val(rms) THEN <<>>
                                       ELSE <<M1_numerator, M0>>,
                                       None))]

\* _compute_moment_prefix
ComputeMomentPrefix(moment, first, last, use_mask) ==
    ExtractMoment(ComputePrefixSums(ChannelMask(Val(data), first, last), use_mask),
                  moment, first, last)

CollapseOf(moment) ==
    CASE moment = "M0" -> "collapse_zeroth"
      [] moment = "M1" -> "collapse_first"
      [] moment = "M8" -> "collapse_eighth"
      [] moment = "M9" -> "collapse_ninth"

\* _compute_moment_standard: the map (or the exception)
ComputeMomentStandard(moment, first, last, clip_sigma, use_mask) ==
    LET d == Val(data)
        channel_mask == ChannelMask(d, first, last)
        threshold_mask == ThresholdMask(d, clip_sigma)
    IN  IF moment \in {"M0", "M8"} /\ MaskError(d, use_mask) # "none"
        THEN [raised |-> MaskError(d, use_mask), result |-> None]
        ELSE LET masked_data ==
                     IF moment \in {"M0", "M8"}
                     THEN IF use_mask THEN Times(Times(d, channel_mask), Val(mask))
                          ELSE Times(d, channel_mask)
                     ELSE Times(Times(d, threshold_mask), channel_mask)
             IN  IF moment \notin Moments
                 THEN [raised |-> "ValueError", result |-> None]
                 ELSE [raised |-> "none",
                       result |-> Some(Map(CollapseOf(moment), <<>>, Some(masked_data)))]

Params(moment, first, last, clip_sigma, use_mask) ==
    [moment |-> moment, first |-> first, last |-> last,
     clip_sigma |-> clip_sigma, use_mask |-> use_mask]

(***************************************************************************)
(* generate                                                                *)
(***************************************************************************)
\* the assignments of generate after the moment computation r
Record(r, cumsum, params) ==
    /\ call' = Call("generate", None, r.raised, cumsum, None, {})
    /\ IF r.raised = "none"
       THEN /\ current_moment' = r.result
            /\ current_params' = Some(params)
       ELSE UNCHANGED <<current_moment, current_params>>

\* first = max(0, min(first, len(self.velax) - 1))
ClampFirst(first0, n) == Max(0, Min(first0, n - 1))

\* the validation of last that keeps it in the cube but not above first
ClampLastMutIgnoresFirst(first, last0, n) == Max(0, Min(last0, n - 1))

\* last = max(first, min(last, len(self.velax) - 1))
ClampLast(first, last0, n) == Max(first, Min(last0, n - 1))

\* generate once a cube is loaded
Compute(moment, first0, last0, clip_sigma, use_mask) ==
    LET n == NChan(Val(velax))
        first == ClampFirst(first0, n)
        last == ClampLast(first, last0, n)
        params == Params(moment, first, last, clip_sigma, use_mask)
    IN  IF use_prefix_sums /\ moment \in {"M0", "M1"}
        THEN \E r \in {ComputeMomentPrefix(moment, first, last, use_mask)} :
                 /\ S0' = r.cache.S0
                 /\ S1' = r.cache.S1
                 /\ prefix_mask' = r.cache.pm
                 /\ Record(r, r.cache.cumsum, params)
        ELSE \E r \in {ComputeMomentStandard(moment, first, last,
                                             clip_sigma, use_mask)} :
                 /\ UNCHANGED <<S0, S1, prefix_mask>>
                 /\ Record(r, FALSE, params)

\* generate without the check for a loaded cube: len(self.velax) raises
\* TypeError on None
generate_unguarded(moment, first0, last0, clip_sigma, use_mask) ==
    /\ UNCHANGED <<data, velax, mask, rms, header, cube_path, mask_path,
                   use_prefix_sums>>
    /\ IF data = None
       THEN /\ UNCHANGED <<current_moment, current_params, S0, S1, prefix_mask>>
            /\ call' = Call("generate", None, "TypeError", FALSE, None, {})
       ELSE Compute(moment, first0, last0, clip_sigma, use_mask)

generate(moment, first0, last0, clip_sigma, use_mask) ==
    /\ UNCHANGED <<data, velax, mask, rms, header, cube_path, mask_path,
                   use_prefix_sums>>
    /\ IF data = None
       THEN /\ UNCHANGED <<current_moment, current_params, S0, S1, prefix_mask>>
            /\ call' = Call("generate", None, "RuntimeError", FALSE, None, {})
       ELSE Compute(moment, first0, last0, clip_sigma, use_mask)

Generate ==
    \E moment \in Moments \cup {BadMoment}, first0 \in ChanArgs,
       last0 \in ChanArgs, clip_sigma \in Clips, use_mask \in BOOLEAN :
        generate(moment, first0, last0, clip_sigma, use_mask)

\* generate over the whole cube, as SaveSpec calls it
GenerateWhole ==
    \E moment \in Moments : generate(moment, 0, 1, 0, FALSE)

\* generate for M0 or M1, as PrefixSpec calls it
GenerateM0M1 ==
    \E moment \in {"M0", "M1"}, first0 \in Chans(MaxChan),
       last0 \in Chans(MaxChan), use_mask \in BOOLEAN :
        generate(moment, first0, last0, 0, use_mask)

(***************************************************************************)
(* save.  bm is what bm.save_to_FITS does: it returns ("ok"), raises one   *)
(* of ValueError, TypeError, AttributeError ("caught") or raises anything  *)
(* else ("other").                                                         *)
(***************************************************************************)
\* save without the check for a map: method_map[self.current_params['moment']]
\* raises KeyError on the empty current_params
save_unguarded(path, bm) ==
    /\ UNCHANGED explorerVars
    /\ call' = Call("save", path, "KeyError", FALSE, None, {})

save(path, bm) ==
    /\ UNCHANGED explorerVars
    /\ IF current_moment = None
       THEN call' = Call("save", path, "RuntimeError", FALSE, None, {})
       ELSE LET moment == Val(current_params).moment
                derived == ReplaceFits(Val(cube_path), moment)
                output_path == IF path = None THEN derived ELSE Val(path)
            IN  CASE bm = "ok" ->
                        call' = Call("save", path, "none", FALSE, Some(derived), {derived})
                  [] bm = "caught" ->
                        IF header = None
                        THEN call' = Call("save", path, "AttributeError", FALSE, None, {})
                        ELSE call' = Call("save", path, "none", FALSE,
                                          Some(output_path), {output_path})
                  [] bm = "other" ->
                        call' = Call("save", path, "Exception", FALSE, None, {})

Save ==
    \E path \in {None} \cup {Some(p) : p \in OutPaths},
       bm \in {"ok", "caught", "other"} :
        save(path, bm)

Next ==
    \/ LoadCube /\ UNCHANGED <<multi, browser, launcher, ui, range_args>>
    \/ EnablePrefixSums /\ UNCHANGED <<multi, browser, launcher, ui, range_args>>
    \/ Generate /\ UNCHANGED <<multi, browser, launcher, ui, range_args>>

Spec == Init /\ [][Next]_vars

SaveNext ==
    \/ LoadEitherCube /\ UNCHANGED <<multi, browser, launcher, ui, range_args>>
    \/ GenerateWhole /\ UNCHANGED <<multi, browser, launcher, ui, range_args>>
    \/ Save /\ UNCHANGED <<multi, browser, launcher, ui, range_args>>

SaveSpec == Init /\ [][SaveNext]_vars

PrefixNext ==
    \/ LoadAnyCube /\ UNCHANGED <<multi, browser, launcher, ui, range_args>>
    \/ EnablePrefixSums /\ UNCHANGED <<multi, browser, launcher, ui, range_args>>
    \/ GenerateM0M1 /\ UNCHANGED <<multi, browser, launcher, ui, range_args>>

PrefixSpec == Init /\ [][PrefixNext]_vars

\* the channel indices ClampSpec passes to generate: below, in and above the
\* range of its cubes of one and two channels
ClampArgs == (0 - 1) .. MaxArg + 1

\* load_cube on the cube of two channels or on the one of one channel
LoadSmallCube ==
    \E cp \in {PathA, PathC}, withMask \in BOOLEAN :
        load_cube(cp, IF withMask THEN Some(MaskPathOf(cp)) ELSE None,
                  CubeFile(cp), MaskFile(cp), "none")

GenerateAnyRange ==
    \E moment \in Moments, first0 \in ClampArgs, last0 \in ClampArgs,
       use_mask \in BOOLEAN :
        /\ generate(moment, first0, last0, 0, use_mask)
        /\ range_args' = Some(<<first0, last0>>)

ClampNext ==
    \/ LoadSmallCube /\ range_args' = None /\ UNCHANGED <<multi, browser, launcher, ui>>
    \/ EnablePrefixSums /\ range_args' = None
           /\ UNCHANGED <<multi, browser, launcher, ui>>
    \/ GenerateAnyRange /\ UNCHANGED <<multi, browser, launcher, ui>>

ClampSpec == Init /\ [][ClampNext]_vars

ReloadNext ==
    \/ LoadEitherCube /\ UNCHANGED <<multi, browser, launcher, ui, range_args>>
    \/ EnablePrefixSums /\ UNCHANGED <<multi, browser, launcher, ui, range_args>>
    \/ GenerateM0M1 /\ UNCHANGED <<multi, browser, launcher, ui, range_args>>

ReloadSpec == Init /\ [][ReloadNext]_vars

(***************************************************************************)
(* create_multi_cube_explorer(available_cubes, default_cube).              *)
(* available_cubes is a dict: the sequence of its keys, in insertion       *)
(* order; key k names the cube file CubeOfKey(k), with its mask file when  *)
(* MaskOfKey(k).  multi.pc is the position in the function; "returned" and *)
(* "raised" are its two ends.  load_output is an ipywidgets Output: in the *)
(* notebook its context manager shows and swallows an exception raised     *)
(* inside the with block.                                                  *)
(***************************************************************************)
Keys == {"A", "B", "C"}
CubeOfKey(k) == IF k = "A" THEN PathA ELSE PathB
MaskOfKey(k) == k # "B"

Range(seq) == {seq[i] : i \in DOMAIN seq}

\* the dicts of at most MaxCubes entries
Dicts ==
    {ks \in UNION {[1 .. n -> Keys] : n \in 0 .. MaxCubes} :
        \A i, j \in DOMAIN ks : i # j => ks[i] # ks[j]}

\* the widgets MomentMapUI creates
UIWidgets ==
    {"fig", "moment", "first_channel", "last_channel", "clip_sigma", "use_mask",
     "colorscale", "auto_apply", "apply_button", "save_button", "reset_button",
     "status_label", "clip_help", "save_output"}

\* the call, with its arguments
MultiCall ==
    /\ multi.pc = "idle"
    /\ \E available \in Dicts, default \in {None} \cup {Some(k) : k \in Keys} :
           multi' = [multi EXCEPT !.pc = "check", !.available = available,
                                  !.default_arg = default, !.default_cube = default]
    /\ UNCHANGED <<explorerVars, call>>

\* the checks of the arguments, with the one of default_cube left out
MultiCheckMutNoDefaultCheck ==
    /\ multi.pc = "check"
    /\ IF multi.available = <<>>
       THEN multi' = [multi EXCEPT !.pc = "raised", !.raised = "ValueError"]
       ELSE IF multi.default_cube = None
       THEN multi' = [multi EXCEPT !.pc = "explorer",
                                   !.default_cube = Some(multi.available[1])]
       ELSE multi' = [multi EXCEPT !.pc = "explorer"]
    /\ UNCHANGED <<explorerVars, call>>

\* the checks of the arguments
MultiCheck ==
    /\ multi.pc = "check"
    /\ IF multi.available = <<>>
       THEN multi' = [multi EXCEPT !.pc = "raised", !.raised = "ValueError"]
       ELSE IF multi.default_cube = None
       THEN multi' = [multi EXCEPT !.pc = "explorer",
                                   !.default_cube = Some(multi.available[1])]
       ELSE IF Val(multi.default_cube) \notin Range(multi.available)
       THEN multi' = [multi EXCEPT !.pc = "raised", !.raised = "ValueError"]
       ELSE multi' = [multi EXCEPT !.pc = "explorer"]
    /\ UNCHANGED <<explorerVars, call>>

\* explorer = MomentMapExplorer(); cube_selector = widgets.Dropdown(...);
\* load_output = widgets.Output()
MultiWidgets ==
    /\ multi.pc = "explorer"
    /\ multi' = [multi EXCEPT !.pc = "load",
                              !.widgets = {"cube_selector", "load_output"},
                              !.selector = multi.default_cube]
    /\ UNCHANGED <<explorerVars, call>>

\* explorer.load_cube(cube_path, mask_path) of load_selected_cube(cube_name)
LoadSelected(cube_name, failAt) ==
    /\ (failAt = "mask" => MaskOfKey(cube_name))
    /\ load_cube(CubeOfKey(cube_name),
                 IF MaskOfKey(cube_name) THEN Some(MaskPathOf(CubeOfKey(cube_name)))
                 ELSE None,
                 CubeFile(CubeOfKey(cube_name)), MaskFile(CubeOfKey(cube_name)), failAt)

\* load_selected_cube(default_cube): explorer has no _ui yet
MultiLoad ==
    /\ multi.pc = "load"
    /\ \E failAt \in {"none", "cube", "mask"} :
           LoadSelected(Val(multi.default_cube), failAt)
    /\ multi' = [multi EXCEPT !.pc = "ui",
                              !.loads = Append(@, Val(multi.default_cube))]

\* the default channel range of MomentMapUI and of load_selected_cube
DefaultFirst(n) == Max(0, n \div 4)
DefaultLast(n) == Min(n - 1, (3 * n) \div 4)

\* ui = MomentMapUI(explorer); explorer._ui = ui; display(combined_ui)
MultiUI ==
    /\ multi.pc = "ui"
    /\ IF data = None
       THEN /\ multi' = [multi EXCEPT !.pc = "raised", !.raised = "RuntimeError"]
            /\ UNCHANGED <<explorerVars, call>>
       ELSE /\ generate("M0", DefaultFirst(NChan(Val(velax))),
                        DefaultLast(NChan(Val(velax))), 3, TRUE)
            /\ IF call'.raised # "none"
               THEN multi' = [multi EXCEPT !.pc = "raised", !.raised = call'.raised]
               ELSE multi' = [multi EXCEPT
                                 !.pc = "returned",
                                 !.widgets = @ \cup UIWidgets,
                                 !.sliders = Some(<<DefaultFirst(NChan(Val(velax))),
                                                    DefaultLast(NChan(Val(velax)))>>)]

\* the user picks another cube in the dropdown: on_cube_change, and
\* load_selected_cube up to explorer._ui._on_apply()
MultiCubeChange ==
    /\ multi.pc = "returned"
    /\ Len(multi.loads) < MaxLoads
    /\ \E cube_name \in Range(multi.available) \ {Val(multi.selector)},
          failAt \in {"none", "cube", "mask"} :
           /\ LoadSelected(cube_name, failAt)
           /\ multi' = [multi EXCEPT
                            !.pc = IF failAt = "none" THEN "apply" ELSE "returned",
                            !.selector = Some(cube_name),
                            !.loads = Append(@, cube_name),
                            !.sliders =
                                IF failAt = "none"
                                THEN Some(<<DefaultFirst(NChan(CubeFile(CubeOfKey(cube_name)))),
                                            DefaultLast(NChan(CubeFile(CubeOfKey(cube_name))))>>)
                                ELSE @]

\* explorer._ui._on_apply(), with the moment, clip sigma and use-mask widgets
\* as MomentMapUI creates them
MultiApply ==
    /\ multi.pc = "apply"
    /\ generate("M0", Val(multi.sliders)[1], Val(multi.sliders)[2], 0, TRUE)
    /\ multi' = [multi EXCEPT !.pc = "returned"]

MultiNext ==
    \/ MultiCall /\ UNCHANGED <<browser, launcher, ui, range_args>>
    \/ MultiCheck /\ UNCHANGED <<browser, launcher, ui, range_args>>
    \/ MultiWidgets /\ UNCHANGED <<browser, launcher, ui, range_args>>
    \/ MultiLoad /\ UNCHANGED <<browser, launcher, ui, range_args>>
    \/ MultiUI /\ UNCHANGED <<browser, launcher, ui, range_args>>
    \/ MultiCubeChange /\ UNCHANGED <<browser, launcher, ui, range_args>>
    \/ MultiApply /\ UNCHANGED <<browser, launcher, ui, range_args>>

MultiSpec == Init /\ [][MultiNext]_vars

(***************************************************************************)
(* browse_files(start_path).  A string is the sequence of its pieces, a    *)
(* space, a slash and each marker being a piece of its own, so that split, *)
(* replace and rstrip do what they do in Python; "DIR" and "FILE" stand    *)
(* for the folder and the page symbol that start an entry.  A Path is the  *)
(* sequence of its components.  The directory tree is                      *)
(*     /            obs/  private/  top.fits                               *)
(*     /obs         a.fits  "my cube.fits"                                 *)
(*     /private     not readable                                           *)
(* browser.auto is the Select widget's answer to a new list of options: it *)
(* highlights the first option (auto), or nothing.                         *)
(***************************************************************************)
RECURSIVE SplitOn(_, _)
\* str.split(sep)
SplitOn(str, sep) ==
    IF str = <<>> THEN << <<>> >>
    ELSE LET rest == SplitOn(Tail(str), sep)
         IN  IF Head(str) = sep THEN << <<>> >> \o rest
             ELSE << <<Head(str)>> \o rest[1] >> \o Tail(rest)

RECURSIVE StrPath(_)
\* str(path)
StrPath(path) ==
    IF path = <<>> THEN <<"/">>
    ELSE IF Len(path) = 1 THEN <<"/">> \o path[1]
    ELSE StrPath(SubSeq(path, 1, Len(path) - 1)) \o <<"/">> \o path[Len(path)]

\* Path(str)
ParsePath(str) == SelectSeq(SplitOn(str, "/"), LAMBDA name : name # <<>>)

\* path / name
JoinPath(path, name) == path \o ParsePath(name)

\* path.parent
Parent(path) == IF path = <<>> THEN path ELSE SubSeq(path, 1, Len(path) - 1)

RootDir == <<>>
ObsDir == << <<"obs">> >>
PrivateDir == << <<"private">> >>
StartPaths == {RootDir, ObsDir}

Exists(path) == path \in {RootDir, ObsDir, PrivateDir}
Readable(path) == path # PrivateDir

\* sorted(path.iterdir()), the directories
SubDirs(path) == IF path = RootDir THEN << <<"obs">>, <<"private">> >> ELSE <<>>
\* sorted(path.glob(file_pattern)), the files
Files(path) ==
    IF path = RootDir THEN << <<"top.fits">> >>
    ELSE IF path = ObsDir THEN << <<"a.fits">>, <<"my", " ", "cube.fits">> >>
    ELSE <<>>

DirEntry(name) == <<"DIR", " ">> \o name \o <<"/">>
FileEntry(name) == <<"FILE", " ">> \o name \o <<" ", "(1.0", " ", "MB)">>
EmptyDirectory == <<"<empty", " ", "directory>">>
PermissionDenied == <<"<Permission", " ", "denied>">>

Items(path) ==
    [i \in 1 .. Len(SubDirs(path)) |-> DirEntry(SubDirs(path)[i])]
        \o [i \in 1 .. Len(Files(path)) |-> FileEntry(Files(path)[i])]

\* the value of the current_path widget
CurrentPathValue(path) == <<"<b>Current", " ", "directory:", "</b> ">> \o StrPath(path)
\* Path(current_path.value.split('</b> ')[1])
CurrentDir(b) == ParsePath(SplitOn(b.current_path, "</b> ")[2])

NoFileSelected == <<"<i>No", " ", "file", " ", "selected</i>">>
SelectedValue(path) == <<"<b>Selected:", "</b> ">> \o StrPath(path)

RECURSIVE StripDirMarker(_)
\* selection.replace('DIR ', '')
StripDirMarker(str) ==
    IF Len(str) < 2 THEN str
    ELSE IF str[1] = "DIR" /\ str[2] = " " THEN StripDirMarker(Tail(Tail(str)))
    ELSE <<Head(str)>> \o StripDirMarker(Tail(str))

RECURSIVE RStripSlash(_)
\* str.rstrip('/')
RStripSlash(str) ==
    IF str # <<>> /\ str[Len(str)] = "/" THEN RStripSlash(SubSeq(str, 1, Len(str) - 1))
    ELSE str

\* selection.split(' ')[1]
FileNameOf(selection) == SplitOn(selection, " ")[2]

RECURSIVE update_file_list(_, _), on_file_select(_, _), SetOptions(_, _)

\* file_list.options = items: the widget changes its value, and the observer
\* of the value runs when the new value differs from the old one
SetOptions(b, items) ==
    IF ~b.auto THEN [b EXCEPT !.options = items, !.value = None]
    ELSE IF b.value = Some(items[1]) THEN [b EXCEPT !.options = items]
    ELSE on_file_select([b EXCEPT !.options = items, !.value = Some(items[1])],
                        items[1])

update_file_list(b, path) ==
    IF ~Exists(path) THEN [b EXCEPT !.error = "FileNotFoundError"]
    ELSE IF ~Readable(path) THEN SetOptions(b, <<PermissionDenied>>)
    ELSE LET b1 == SetOptions(b, IF Items(path) = <<>> THEN <<EmptyDirectory>>
                                    ELSE Items(path))
         IN  IF b1.error # "none" THEN b1
             ELSE [b1 EXCEPT !.current_path = CurrentPathValue(path)]

on_file_select(b, selection) ==
    IF Head(selection) = "DIR"
    THEN LET b1 == update_file_list(
                       b, JoinPath(CurrentDir(b), RStripSlash(StripDirMarker(selection))))
         IN  IF b1.error # "none" THEN b1
             ELSE [b1 EXCEPT !.selected_file = NoFileSelected]
    ELSE IF Head(selection) = "FILE"
    THEN [b EXCEPT !.selected_file =
                       SelectedValue(JoinPath(CurrentDir(b), FileNameOf(selection)))]
    ELSE b

on_up_button(b) ==
    LET b1 == update_file_list(b, Parent(CurrentDir(b)))
    IN  IF b1.error # "none" THEN b1
        ELSE [b1 EXCEPT !.selected_file = NoFileSelected]

on_select_button(b) ==
    IF b.value # None /\ Head(Val(b.value)) = "FILE"
    THEN [b EXCEPT !.path = Some(StrPath(JoinPath(CurrentDir(b),
                                                  FileNameOf(Val(b.value))))),
                   !.done = TRUE,
                   !.output = "Selected"]
    ELSE b

on_cancel_button(b) ==
    [b EXCEPT !.done = TRUE, !.output = "Cancelled"]

\* browse_files(start_path), up to its return
browse_files(start_path, auto) ==
    update_file_list(
        [current_path |-> CurrentPathValue(start_path), options |-> <<>>,
         value |-> None, selected_file |-> NoFileSelected,
         path |-> None, done |-> FALSE, output |-> "",
         auto |-> auto, error |-> "none"],
        start_path)

BrowserInit ==
    /\ ExplorerInit
    /\ call = Call("init", None, "none", FALSE, None, {})
    /\ multi = MultiIdle
    /\ launcher = LauncherIdle
    /\ ui = None
    /\ range_args = None
    /\ \E start_path \in StartPaths, auto \in BOOLEAN :
           browser = browse_files(start_path, auto)

\* the user highlights another entry of the list
BrowserHighlight ==
    /\ \E selection \in Range(browser.options) :
           /\ browser.value # Some(selection)
           /\ browser' = on_file_select(
                             [browser EXCEPT !.value = Some(selection),
                                             !.error = "none"], selection)
    /\ UNCHANGED <<explorerVars, call, multi, launcher, ui, range_args>>

BrowserUp ==
    /\ browser' = on_up_button([browser EXCEPT !.error = "none"])
    /\ UNCHANGED <<explorerVars, call, multi, launcher, ui, range_args>>

BrowserSelect ==
    /\ browser' = on_select_button([browser EXCEPT !.error = "none"])
    /\ UNCHANGED <<explorerVars, call, multi, launcher, ui, range_args>>

BrowserCancel ==
    /\ browser' = on_cancel_button([browser EXCEPT !.error = "none"])
    /\ UNCHANGED <<explorerVars, call, multi, launcher, ui, range_args>>

BrowserNext ==
    \/ BrowserHighlight
    \/ BrowserUp
    \/ BrowserSelect
    \/ BrowserCancel

BrowserSpec == BrowserInit /\ [][BrowserNext]_vars

(***************************************************************************)
(* create_launcher_ui and create_interactive_explorer.  launcher.pc is the *)
(* position in create_interactive_explorer ("idle": not running), called   *)
(* from on_launch (caller "launcher") or from a notebook cell (caller      *)
(* "notebook").  A call binds its keyword arguments to the parameters of   *)
(* the function before the body runs, and raises TypeError when a keyword  *)
(* is no parameter.                                                        *)
(***************************************************************************)
\* a path that names no file
MissingPath == <<"nofile", FITS>>
\* os.path.exists
FileExists(path) == path \in CubePaths \cup {MaskPathOf(cp) : cp \in CubePaths}

RECURSIVE LStrip(_)
LStrip(str) == IF str # <<>> /\ Head(str) = " " THEN LStrip(Tail(str)) ELSE str
RECURSIVE RStrip(_)
RStrip(str) ==
    IF str # <<>> /\ str[Len(str)] = " " THEN RStrip(SubSeq(str, 1, Len(str) - 1))
    ELSE str
\* str.strip()
Strip(str) == LStrip(RStrip(str))

\* what the user types as the cube path and as the mask path
CubeTexts == {<<>>, <<" ">>, PathA, <<" ">> \o PathB \o <<" ">>, MissingPath}
MaskTexts == {<<>>, MaskPathOf(PathA), MissingPath}

\* def create_interactive_explorer(cube_path, mask_path=None)
InteractiveParams == {"cube_path", "mask_path"}
InteractiveRequired == {"cube_path"}
\* the binding of the keyword arguments kwargs (a function from names)
BindError(kwargs) ==
    IF ~(DOMAIN kwargs \subseteq InteractiveParams) THEN "TypeError"
    ELSE IF ~(InteractiveRequired \subseteq DOMAIN kwargs) THEN "TypeError"
    ELSE "none"

\* the keyword arguments on_launch passes
LaunchKwargs(cube, maskp, flag) ==
    [k \in {"cube_path", "mask_path", "enable_prefix_sums"} |->
        IF k = "cube_path" THEN Some(cube)
        ELSE IF k = "mask_path" THEN maskp
        ELSE flag]

\* the keyword arguments of a call create_interactive_explorer(cube, mask)
NotebookKwargs(cube, maskp) ==
    [k \in {"cube_path", "mask_path"} |->
        IF k = "cube_path" THEN Some(cube) ELSE maskp]

\* explorer = MomentMapExplorer()
NewExplorer ==
    /\ data' = None
    /\ velax' = None
    /\ mask' = None
    /\ rms' = None
    /\ header' = None
    /\ cube_path' = None
    /\ mask_path' = None
    /\ current_moment' = None
    /\ current_params' = None
    /\ use_prefix_sums' = FALSE
    /\ S0' = None
    /\ S1' = None
    /\ prefix_mask' = None

LauncherTypeCube ==
    /\ launcher.pc = "idle"
    /\ \E text \in CubeTexts \ {launcher.cube_text} :
           launcher' = [launcher EXCEPT !.cube_text = text]
    /\ UNCHANGED <<explorerVars, call>>

LauncherTypeMask ==
    /\ launcher.pc = "idle"
    /\ \E text \in MaskTexts \ {launcher.mask_text} :
           launcher' = [launcher EXCEPT !.mask_text = text]
    /\ UNCHANGED <<explorerVars, call>>

LauncherTogglePrefixSums ==
    /\ launcher.pc = "idle"
    /\ launcher' = [launcher EXCEPT !.prefix_sums = ~@]
    /\ UNCHANGED <<explorerVars, call>>

\* on_launch, up to the first line of create_interactive_explorer
on_launch ==
    LET cube == Strip(launcher.cube_text)
        maskp == IF Strip(launcher.mask_text) = <<>> THEN None
                 ELSE Some(Strip(launcher.mask_text))
        kwargs == LaunchKwargs(cube, maskp, launcher.prefix_sums)
        clicked == [launcher EXCEPT !.caller = "launcher", !.raised = "none",
                                    !.click = None, !.kwargs = <<>>]
    IN  IF cube = <<>>
        THEN /\ launcher' = [clicked EXCEPT !.output = "Error: Please specify"]
             /\ UNCHANGED <<explorerVars, call>>
        ELSE IF ~FileExists(cube)
        THEN /\ launcher' = [clicked EXCEPT !.output = "Error: Cube file not found"]
             /\ UNCHANGED <<explorerVars, call>>
        ELSE IF maskp # None /\ ~FileExists(Val(maskp))
        THEN /\ launcher' = [clicked EXCEPT !.output = "Error: Mask file not found"]
             /\ UNCHANGED <<explorerVars, call>>
        ELSE IF BindError(kwargs) # "none"
        THEN /\ launcher' = [clicked EXCEPT
                                !.output = "Error launching explorer",
                                !.raised = BindError(kwargs),
                                !.click = Some(<<cube, maskp, launcher.prefix_sums>>)]
             /\ UNCHANGED <<explorerVars, call>>
        ELSE /\ launcher' = [clicked EXCEPT
                                !.output = "Launching explorer...",
                                !.pc = "load", !.kwargs = kwargs,
                                !.click = Some(<<cube, maskp, launcher.prefix_sums>>)]
             /\ NewExplorer
             /\ UNCHANGED call

LauncherLaunch ==
    /\ launcher.pc = "idle"
    /\ on_launch

\* a notebook cell calls create_interactive_explorer(cube_path, mask_path)
NotebookCall ==
    /\ launcher.pc = "idle"
    /\ \E cube \in CubePaths \cup {MissingPath}, withMask \in BOOLEAN :
           launcher' = [launcher EXCEPT
                           !.pc = "load", !.caller = "notebook", !.raised = "none",
                           !.click = None,
                           !.kwargs = NotebookKwargs(
                                          cube, IF withMask /\ FileExists(cube)
                                                THEN Some(MaskPathOf(cube)) ELSE None)]
    /\ NewExplorer
    /\ UNCHANGED call

\* the end of create_interactive_explorer by an exception: on_launch catches
\* and prints it, a notebook cell shows it
InteractiveRaised(exc) ==
    [launcher EXCEPT !.pc = "idle", !.raised = exc,
                     !.output = IF launcher.caller = "launcher"
                                THEN "Error launching explorer" ELSE @]

\* info = explorer.load_cube(cube_path, mask_path)
InteractiveLoad ==
    /\ launcher.pc = "load"
    /\ LET cube == Val(launcher.kwargs["cube_path"])
           maskp == launcher.kwargs["mask_path"]
       IN  \E failAt \in {"none", "cube", "mask"} :
               /\ (failAt = "mask" => maskp # None)
               /\ (~FileExists(cube) => failAt = "cube")
               /\ load_cube(cube, maskp, CubeFile(cube), MaskFile(cube), failAt)
               /\ launcher' = IF failAt # "none" THEN InteractiveRaised("OSError")
                              ELSE [launcher EXCEPT !.pc = "ui"]

\* ui = MomentMapUI(explorer); ui.display(); return explorer, ui
InteractiveUI ==
    /\ launcher.pc = "ui"
    /\ generate("M0", DefaultFirst(NChan(Val(velax))),
                DefaultLast(NChan(Val(velax))), 3, TRUE)
    /\ launcher' = IF call'.raised # "none" THEN InteractiveRaised(call'.raised)
                   ELSE [launcher EXCEPT
                            !.pc = "idle", !.displayed = TRUE,
                            !.output = IF launcher.caller = "launcher"
                                       THEN "Explorer launched successfully!" ELSE @]

LauncherNext ==
    \/ LauncherTypeCube /\ UNCHANGED <<multi, browser, ui, range_args>>
    \/ LauncherTypeMask /\ UNCHANGED <<multi, browser, ui, range_args>>
    \/ LauncherTogglePrefixSums /\ UNCHANGED <<multi, browser, ui, range_args>>
    \/ LauncherLaunch /\ UNCHANGED <<multi, browser, ui, range_args>>
    \/ NotebookCall /\ UNCHANGED <<multi, browser, ui, range_args>>
    \/ InteractiveLoad /\ UNCHANGED <<multi, browser, ui, range_args>>
    \/ InteractiveUI /\ UNCHANGED <<multi, browser, ui, range_args>>

LauncherSpec == Init /\ [][LauncherNext]_vars

(***************************************************************************)
(* MomentMapUI.  UISpec starts when create_interactive_explorer('a.fits',  *)
(* 'a.mask.fits') has returned: the cube is loaded, the initial M0 map is  *)
(* in the figure and the widgets hold their defaults.  The user then works *)
(* the widgets (UISpec); in ApplySpec auto-apply stays off and a notebook  *)
(* cell may call load_cube on the explorer.  The colour scale of the       *)
(* figure is not modelled.                                                 *)
(* Time passes in ticks of 100 ms.  ui.timer is the threading.Timer that   *)
(* is started and not yet cancelled or run: None, or the ticks left before *)
(* it runs _on_apply.  ui.status is the status label: <<"Error:", e>> for  *)
(* the exception e.  ui.since is the                                       *)
(* time since the user last changed a debounced widget, ui.in_burst        *)
(* whether that change was made with auto-apply on, ui.burst_generates the *)
(* number of times the timer has run _on_apply since the first change of   *)
(* the burst (2 stands for 2 or more).                                     *)
(***************************************************************************)
\* max of the channel sliders: n_channels - 1 of the cube the UI was made for
SliderMax == NChan(CubeFile(PathA)) - 1

UILoaded ==
    /\ data = Some(CubeFile(PathA))
    /\ velax = Some(VelAxis(NChan(CubeFile(PathA))))
    /\ mask = Some(MaskFile(PathA))
    /\ rms = Some(EstimateRMS(CubeFile(PathA)))
    /\ header = Some(PathA)
    /\ cube_path = Some(PathA)
    /\ mask_path = Some(MaskPathOf(PathA))
    /\ use_prefix_sums = FALSE
    /\ S0 = None
    /\ S1 = None
    /\ prefix_mask = None

UIInit ==
    /\ UILoaded
    /\ current_moment =
           ComputeMomentStandard("M0", DefaultFirst(SliderMax + 1),
                                 DefaultLast(SliderMax + 1), 3, TRUE).result
    /\ current_params =
           Some(Params("M0", DefaultFirst(SliderMax + 1), DefaultLast(SliderMax + 1),
                       3, TRUE))
    /\ call = Call("generate", None, "none", FALSE, None, {})
    /\ multi = MultiIdle
    /\ browser = None
    /\ launcher = LauncherIdle
    /\ range_args = None
    /\ ui = [moment |-> "M0",
             first_channel |-> DefaultFirst(SliderMax + 1),
             last_channel |-> DefaultLast(SliderMax + 1),
             clip_sigma |-> 0, use_mask |-> TRUE,
             auto_apply |-> FALSE, status |-> <<"--">>, figmap |-> current_moment,
             timer |-> None,
             since |-> DebounceDelay, in_burst |-> FALSE, burst_generates |-> 0]

\* _on_param_change
on_param_change(u) ==
    IF u.auto_apply THEN [u EXCEPT !.timer = Some(DebounceDelay)] ELSE u

\* _on_apply that empties the figure when generate raises
on_apply_clears_figure(u) ==
    LET swap == u.first_channel > u.last_channel
        first == IF swap THEN u.last_channel ELSE u.first_channel
        last == IF swap THEN u.first_channel ELSE u.last_channel
        u1 == IF swap
              THEN on_param_change(
                       [on_param_change([u EXCEPT !.first_channel = first])
                           EXCEPT !.last_channel = last])
              ELSE u
    IN  /\ generate(u.moment, first, last, u.clip_sigma, u.use_mask)
        /\ ui' = IF call'.raised = "none"
                 THEN [u1 EXCEPT
                          !.figmap = current_moment',
                          !.status = IF u.moment = "M0" /\ u.clip_sigma > 0
                                     THEN <<"Warning", "Last compute">>
                                     ELSE <<"Last compute">>]
                 ELSE [u1 EXCEPT !.figmap = None,
                                 !.status = <<"Error:", call'.raised>>]

\* _on_apply on the widgets u
on_apply(u) ==
    LET swap == u.first_channel > u.last_channel
        first == IF swap THEN u.last_channel ELSE u.first_channel
        last == IF swap THEN u.first_channel ELSE u.last_channel
        \* the two assignments to the sliders, each observed by _on_param_change
        u1 == IF swap
              THEN on_param_change(
                       [on_param_change([u EXCEPT !.first_channel = first])
                           EXCEPT !.last_channel = last])
              ELSE u
    IN  /\ generate(u.moment, first, last, u.clip_sigma, u.use_mask)
        /\ ui' = IF call'.raised = "none"
                 THEN [u1 EXCEPT
                          !.figmap = current_moment',
                          !.status = IF u.moment = "M0" /\ u.clip_sigma > 0
                                     THEN <<"Warning", "Last compute">>
                                     ELSE <<"Last compute">>]
                 ELSE [u1 EXCEPT !.status = <<"Error:", call'.raised>>]

\* the ghost fields after the user changed a debounced widget
UserChanged(u) ==
    [u EXCEPT !.since = 0,
              !.in_burst = u.auto_apply,
              !.burst_generates =
                  IF u.in_burst /\ u.auto_apply /\ u.since < DebounceDelay THEN @ ELSE 0]

\* the user moves a channel slider or the clip slider, or ticks 'Use mask'
UIChangeParam ==
    /\ \E u \in {[ui EXCEPT !.first_channel = v] : v \in 0 .. SliderMax}
              \cup {[ui EXCEPT !.last_channel = v] : v \in 0 .. SliderMax}
              \cup {[ui EXCEPT !.clip_sigma = v] : v \in Clips}
              \cup {[ui EXCEPT !.use_mask = v] : v \in BOOLEAN} :
           /\ u # ui
           /\ ui' = on_param_change(UserChanged(u))
    /\ UNCHANGED <<explorerVars, call>>

UIToggleAutoApply ==
    /\ ui' = [ui EXCEPT !.auto_apply = ~@, !.in_burst = FALSE]
    /\ UNCHANGED <<explorerVars, call>>

\* _on_moment_change
UIChangeMoment ==
    \E moment \in Moments \ {ui.moment} :
        on_apply([ui EXCEPT !.moment = moment])

\* the Apply button
UIClickApply == on_apply(ui)

\* 100 ms pass; a timer that is due runs first
UITick ==
    /\ ui.timer # None => Val(ui.timer) > 0
    /\ ui.timer = None => ui.since < DebounceDelay
    /\ ui' = [ui EXCEPT !.timer = IF @ = None THEN @ ELSE Some(Val(@) - 1),
                        !.since = Min(@ + 1, DebounceDelay)]
    /\ UNCHANGED <<explorerVars, call>>

\* the debounce timer runs _on_apply
UITimerFires ==
    /\ ui.timer = Some(0)
    /\ on_apply([ui EXCEPT !.timer = None, !.burst_generates = Min(@ + 1, 2)])

\* a notebook cell calls explorer.load_cube on the one-channel cube, or on
\* the first cube again
UILoadCube ==
    /\ \E cp \in {PathA, PathC}, failAt \in {"none", "mask"} :
           load_cube(cp, Some(MaskPathOf(cp)), CubeFile(cp), MaskFile(cp), failAt)
    /\ UNCHANGED ui

UINext ==
    \/ UIChangeParam /\ UNCHANGED <<multi, browser, launcher, range_args>>
    \/ UIToggleAutoApply /\ UNCHANGED <<multi, browser, launcher, range_args>>
    \/ UIChangeMoment /\ UNCHANGED <<multi, browser, launcher, range_args>>
    \/ UIClickApply /\ UNCHANGED <<multi, browser, launcher, range_args>>
    \/ UITick /\ UNCHANGED <<multi, browser, launcher, range_args>>
    \/ UITimerFires /\ UNCHANGED <<multi, browser, launcher, range_args>>

UISpec == UIInit /\ [][UINext]_vars

ApplyNext ==
    \/ UIChangeParam /\ UNCHANGED <<multi, browser, launcher, range_args>>
    \/ UIChangeMoment /\ UNCHANGED <<multi, browser, launcher, range_args>>
    \/ UIClickApply /\ UNCHANGED <<multi, browser, launcher, range_args>>
    \/ UILoadCube /\ UNCHANGED <<multi, browser, launcher, range_args>>

ApplySpec == UIInit /\ [][ApplyNext]_vars

(***************************************************************************)
(* Properties.                                                             *)
(***************************************************************************)
Generated == call.op = "generate" /\ call.raised = "none"

\* every attribute load_cube sets is set, from the cube at cube_path
Loaded ==
    /\ data # None /\ mask # None /\ rms # None
    /\ header # None /\ header = cube_path
    /\ DOMAIN Val(mask) = DOMAIN Val(data)

\* the sum of f over the channels first..last, computed directly
RECURSIVE DirectSum(_, _, _)
DirectSum(f, first, last) ==
    IF first > last THEN 0 ELSE f[first] + DirectSum(f, first + 1, last)

\* the user mask as generate's use_mask argument selects it
UserMask(use_mask) == IF use_mask THEN Val(mask) ELSE [c \in DOMAIN Val(data) |-> 1]

\* C1: in prefix mode, generate('M0', first, last, clip, use_mask) on a cube of
\* at least 2 channels returns |velax[1] - velax[0]| times the direct sum over
\* the channels first..last of data[c] * m[c], m the user mask if use_mask and
\* 1 otherwise, whatever the cache holds from earlier calls.
C1_PrefixM0IsDirectSum ==
    (Generated /\ use_prefix_sums /\ Val(current_params).moment = "M0")
    => LET p == Val(current_params)
           dv == Abs(Val(velax)[1] - Val(velax)[0])
       IN  /\ NChan(Val(data)) >= 2
           /\ 0 <= p.first /\ p.first <= p.last /\ p.last <= NChan(Val(data)) - 1
           /\ Val(current_moment).kind = "M0"
           /\ Val(current_moment).map =
                  <<dv * DirectSum(Times(Val(data), UserMask(p.use_mask)),
                                   p.first, p.last)>>

\* a masked M0 over a range that does not start at channel 0, answered from
\* sums an earlier call left in the cache
C1_Witness ==
    /\ Generated /\ use_prefix_sums /\ ~call.cumsum
    /\ Val(current_params).moment = "M0"
    /\ Val(current_params).first > 0
    /\ Val(current_params).use_mask
    /\ Val(current_moment).map # <<0>>

\* the cache holds the cumulative sums of the loaded cube for use_mask and
\* some channel range
CacheIsFor(use_mask) ==
    /\ S0 # None
    /\ MaskError(Val(data), use_mask) = "none"
    /\ \E first \in DOMAIN Val(data), last \in DOMAIN Val(data) :
           /\ first <= last
           /\ Computed(EffectiveMask(ChannelMask(Val(data), first, last), use_mask))
                  = Cache("none", S0, S1, prefix_mask, TRUE)

\* C2: once the cumulative sums are computed for the loaded cube and a
\* use_mask setting, a later generate for M0 or M1 in prefix mode with that
\* setting does not compute them again, whatever its channel range.
C2_SumsComputedOnce ==
    [][(/\ call'.op = "generate" /\ call'.raised = "none"
        /\ use_prefix_sums /\ Loaded
        /\ Val(current_params').moment \in {"M0", "M1"}
        /\ CacheIsFor(Val(current_params').use_mask))
       => ~call'.cumsum]_vars

\* C3: a new explorer has no data and no velocity axis, and generate with no
\* cube loaded raises RuntimeError and leaves current_moment, current_params
\* and the prefix-sum cache as they were.
C3_GenerateNeedsCube ==
    /\ data = None /\ velax = None
    /\ [][(call'.op = "generate" /\ data = None)
          => /\ call'.raised = "RuntimeError"
             /\ UNCHANGED <<current_moment, current_params, S0, S1, prefix_mask>>]_vars

\* generate was refused on an explorer with prefix sums enabled and no cube
C3_Witness ==
    /\ call.op = "generate" /\ call.raised = "RuntimeError"
    /\ data = None /\ use_prefix_sums

\* C4: enable_prefix_sums(flag) sets use_prefix_sums to flag (False on a new
\* explorer); while use_prefix_sums is False, _S0, _S1 and _prefix_mask are
\* None, and the three are always all None or all set.
C4_DisabledHasNoCache ==
    /\ call.op = "init" => ~use_prefix_sums
    /\ call.op = "enable_prefix_sums" => use_prefix_sums = Val(call.arg)
    /\ ~use_prefix_sums => (S0 = None /\ S1 = None /\ prefix_mask = None)
    /\ (S0 = None) = (S1 = None)
    /\ (S0 = None) = (prefix_mask = None)

\* prefix sums were disabled after a map had been computed from them
C4_Witness ==
    /\ call.op = "enable_prefix_sums" /\ call.arg = Some(FALSE)
    /\ current_moment # None
    /\ Val(current_moment).kind \in {"M0", "M1"}
    /\ S0 = None

\* C5: with use_mask True the data handed to the collapse is zero wherever the
\* user mask is zero, for every moment type; with use_mask False the user
\* mask has no effect on it.
C5_UseMaskDecides ==
    (Generated /\ Loaded /\ Val(current_moment).arg # None)
    => LET p == Val(current_params)
           arg == Val(Val(current_moment).arg)
       IN  IF p.use_mask
           THEN \A c \in DOMAIN arg : Val(mask)[c] = 0 => arg[c] = 0
           ELSE arg \in {Times(Val(data), ChannelMask(Val(data), p.first, p.last)),
                         Times(Times(Val(data), ThresholdMask(Val(data), p.clip_sigma)),
                               ChannelMask(Val(data), p.first, p.last))}

\* C6: with clip sigma > 0 the voxels below clip_sigma x RMS are excluded from
\* the data generate collapses, for M0 as for M1 and M9; with clip sigma 0 no
\* voxel is excluded by clipping.
C6_ClipExcludesFaint ==
    (Generated /\ Loaded /\ Val(current_moment).arg # None)
    => LET p == Val(current_params)
           arg == Val(Val(current_moment).arg)
       IN  \A c \in DOMAIN arg :
               IF p.clip_sigma > 0
               THEN Abs(Val(data)[c]) < p.clip_sigma * Val(rms) => arg[c] = 0
               ELSE (p.first <= c /\ c <= p.last /\ ~p.use_mask)
                    => arg[c] = Val(data)[c]

\* C7: save returns the path of the file it wrote: path when path is given,
\* and otherwise the cube path with '.fits' replaced by '_<moment>.fits'.
C7_SaveReturnsWhatItWrote ==
    (call.op = "save" /\ call.raised = "none" /\ Loaded)
    => LET expected == IF call.arg = None
                       THEN ReplaceFits(Val(cube_path), Val(current_params).moment)
                       ELSE Val(call.arg)
       IN  call.ret = Some(expected) /\ call.wrote = {expected}

\* the arguments create_multi_cube_explorer refuses
BadArguments ==
    \/ multi.available = <<>>
    \/ multi.default_arg # None /\ Val(multi.default_arg) \notin Range(multi.available)

\* C9: create_multi_cube_explorer raises ValueError, before loading any cube
\* or creating any widget, when available_cubes is empty or default_cube is
\* given and is no key of it; with default_cube None the first key of
\* available_cubes is the cube loaded first.
C9_MultiChecksFirst ==
    /\ (multi.pc \notin {"idle", "check"} /\ BadArguments)
       => /\ multi.pc = "raised" /\ multi.raised = "ValueError"
          /\ multi.loads = <<>> /\ multi.widgets = {}
          /\ data = None /\ cube_path = None
    /\ (multi.pc \notin {"idle", "check"} /\ ~BadArguments)
       => multi.raised # "ValueError"
    /\ (multi.default_arg = None /\ multi.loads # <<>>)
       => multi.loads[1] = multi.available[1]

\* a default_cube that is no key of a dict of two cubes was refused
C9_Witness ==
    /\ multi.pc = "raised" /\ multi.raised = "ValueError"
    /\ Len(multi.available) = 2
    /\ multi.default_arg # None

\* C10: once Cancel is clicked, and until Select File is clicked again, the
\* result's path is None, whatever was navigated, highlighted and selected
\* before.
C10_CancelReportsNone ==
    (browser.done /\ browser.output = "Cancelled") => browser.path = None

\* the file name an entry of the list shows: the entry without its symbol
\* and without its size
ShownName(entry) == SubSeq(entry, 3, Len(entry) - 4)

\* C11: a Select File click with a file entry highlighted sets the result's
\* path to the current directory joined with exactly the file name the entry
\* shows, also for a name with spaces; with a directory entry or nothing
\* highlighted it leaves the result as it was.
C11_SelectTakesShownName ==
    [][BrowserSelect =>
          IF browser.value # None /\ Head(Val(browser.value)) = "FILE"
          THEN browser'.path =
                   Some(StrPath(CurrentDir(browser) \o <<ShownName(Val(browser.value))>>))
          ELSE browser'.path = browser.path /\ browser'.done = browser.done]_vars

\* C12: a Launch Explorer click with a cube path that exists and a mask path
\* that is empty or exists, when reading the files does not fail, ends with
\* the explorer of that cube displayed, use_prefix_sums as the checkbox was
\* at the click, and the report of a successful launch.
C12_LaunchLaunches ==
    (launcher.pc = "idle" /\ launcher.caller = "launcher" /\ launcher.click # None
        /\ launcher.raised # "OSError")
    => /\ launcher.output = "Explorer launched successfully!"
       /\ launcher.displayed
       /\ cube_path = Some(Val(launcher.click)[1])
       /\ data # None
       /\ use_prefix_sums = Val(launcher.click)[3]

\* C13: with auto-apply on, a burst of changes to the debounced widgets, each
\* less than the debounce delay after the one before, makes the timer run
\* _on_apply (one generate call) exactly once: never more than once, once
\* when the burst is over and no timer is left, and with the values the
\* widgets hold when it has run.
C13_OneRecomputePerBurst ==
    /\ [](ui.in_burst =>
             /\ ui.burst_generates <= 1
             /\ (ui.timer = None /\ ui.since = DebounceDelay)
                    => ui.burst_generates = 1)
    /\ [][UITimerFires =>
             current_params' = Some(Params(ui'.moment, ui'.first_channel,
                                           ui'.last_channel, ui'.clip_sigma,
                                           ui'.use_mask))]_vars

\* C14: when generate raises during an apply, the status label shows
\* 'Error:' and the exception, and the figure's map and the explorer's
\* current_moment and current_params stay what they were before the apply.
C14_ApplyShowsError ==
    [][((UIClickApply \/ UIChangeMoment \/ UITimerFires) /\ call'.raised # "none")
          => /\ ui'.status = <<"Error:", call'.raised>>
             /\ ui'.figmap = ui.figmap
             /\ current_moment' = current_moment
             /\ current_params' = current_params]_vars

\* an apply has failed on a cube whose mask has another shape, with the
\* earlier map still in the figure
C14_Witness ==
    /\ call.op = "generate" /\ call.raised = "ValueError"
    /\ ui.status = <<"Error:", "ValueError">>
    /\ ui.figmap # None /\ ui.figmap = current_moment
    /\ NChan(Val(data)) # NChan(Val(mask))

\* the channel range a successful generate computed with, read off what it
\* left: the channel mask in the data given to the collapse, or in the key
\* of the prefix sums
ComputedWith(first, last) ==
    LET d == Val(data)
        cm == ChannelMask(d, first, last)
    IN  IF Val(current_moment).arg # None
        THEN Val(Val(current_moment).arg) \in
                 {Times(d, cm), Times(Times(d, cm), Val(mask)),
                  Times(Times(d, ThresholdMask(d, Val(current_params).clip_sigma)), cm)}
        ELSE prefix_mask \in {Some(cm), Some(Times(cm, Val(mask)))}

\* C15: whatever integers first and last are (negative, beyond the last
\* channel, first above last), the range a successful generate computes with
\* and records in current_params satisfies 0 <= first <= last <= n - 1.
C15_RangeIsValidated ==
    (Generated /\ Loaded)
    => LET p == Val(current_params)
           n == NChan(Val(data))
       IN  /\ 0 <= p.first /\ p.first <= p.last /\ p.last <= n - 1
           /\ ComputedWith(p.first, p.last)

\* generate has succeeded on the cube of two channels with first beyond the
\* last channel and last below zero
C15_Witness ==
    /\ Generated /\ Loaded
    /\ NChan(Val(data)) = 2
    /\ Val(range_args)[1] > 1 /\ Val(range_args)[2] < 0
    /\ Val(current_params).first = 1 /\ Val(current_params).last = 1

\* data, velax, mask, rms, header, cube_path and mask_path all belong to one
\* cube: the one at cube_path, or none
SameCube ==
    IF cube_path = None
    THEN data = None /\ velax = None /\ mask = None /\ rms = None /\ header = None
         /\ mask_path = None
    ELSE LET cp == Val(cube_path)
         IN  /\ data = Some(CubeFile(cp))
             /\ velax = Some(VelAxis(NChan(CubeFile(cp))))
             /\ rms = Some(EstimateRMS(CubeFile(cp)))
             /\ header = cube_path
             /\ mask = IF mask_path # None THEN Some(MaskFile(cp))
                       ELSE Some([c \in DOMAIN CubeFile(cp) |-> 1])

\* the cached prefix sums are the cumulative sums of the data now held
CacheFromData ==
    S0 # None
    => /\ data # None
       /\ S0 = Some(CumSum(Times(Val(data), Val(prefix_mask))))
       /\ S1 = Some(CumSum(Times(Val(velax), Times(Val(data), Val(prefix_mask)))))

\* C16: also when load_cube calls have failed part-way, data, velax, mask,
\* rms, header, cube_path and mask_path all belong to one cube, cached prefix
\* sums are those of the data now held, and an M0 map generated in prefix
\* mode is built from the data now held.
C16_FailedLoadLeavesExplorer ==
    /\ SameCube
    /\ CacheFromData
    /\ (Generated /\ use_prefix_sums /\ Val(current_params).moment = "M0")
       => LET p == Val(current_params)
              dv == Abs(Val(velax)[1] - Val(velax)[0])
          IN  Val(current_moment).map =
                  <<dv * DirectSum(Times(Val(data), UserMask(p.use_mask)),
                                   p.first, p.last)>>

\* C8: save with no moment map generated raises RuntimeError and writes no
\* file.
C8_SaveNeedsMap ==
    (call.op = "save" /\ current_moment = None)
    => (call.raised = "RuntimeError" /\ call.ret = None /\ call.wrote = {})

\* save was refused on an explorer with a cube loaded and no map generated
C8_Witness ==
    /\ call.op = "save" /\ call.raised = "RuntimeError"
    /\ data # None /\ current_moment = None
====
